---- MODULE Spec2Model ----
(***************************************************************************)
(* Chat client (React + SignalR).  Two variants of the App component:      *)
(*   "identity" : the identity-aware component (JoinChat / UpdateUserName  *)
(*                / SendMessage(userId, text), yup validation)             *)
(*   "simple"   : src/src/App.jsx (SendMessage(name, text), no validation) *)
(*                                                                         *)
(* React state is modelled twice: the state variables hold the latest      *)
(* value written by a setter; `view` holds the values of the last render,  *)
(* which are the values the event handlers and effects close over.         *)
(* Strings are sequences of one-character strings.                         *)
(***************************************************************************)
EXTENDS Integers, Sequences, FiniteSets, TLC

VARIABLES variant, connection, connected, userName, messageInput,
          isSubmitting, userId, validationErrors, messages,
          view, hubState, connectionId, calls, now, received, hubNames

vars == << variant, connection, connected, userName, messageInput,
           isSubmitting, userId, validationErrors, messages,
           view, hubState, connectionId, calls, now, received,
           hubNames >>

----------------------------------------------------------------------------
(* Program constants *)

NAME_MAX_LENGTH == 20
MESSAGE_MAX_LENGTH == 500
NAME_MIN_LENGTH == 2
MESSAGE_MIN_LENGTH == 1

(* Bounds of the model *)

MaxInFlight == 2        \* remote calls outstanding at once
MaxLog == 2             \* ReceiveMessage events delivered (LogSpec, SimpleSpec)
MaxSessionLog == 1      \* ReceiveMessage events delivered (Spec)
MaxIds == 2             \* identifiers the hub hands out
MaxClock == 1           \* readings of the millisecond clock: 0..MaxClock
MaxRandom == 0          \* outcomes of Math.random(): 0..MaxRandom
MaxConnectionId == 2    \* transport connections: 1 = opened, 2.. = reconnected

----------------------------------------------------------------------------
(* Values *)

Null == 0                       \* null / undefined identifier (falsy)
Ids == 1..MaxIds
NoError == ""                   \* validationErrors = {} : no .error
Undefined == "undefined"        \* an absent timestamp

Rep(c, n) == [i \in 1..n |-> c]

Empty == << >>
Blank == << " " >>
NameA == << "A" >>
NameAl == << "A", "l" >>
NameAlPadded == << " ", "A", "l", " " >>
NameBo == << "B", "o" >>
NameLong == Rep("x", NAME_MAX_LENGTH + 1)
TextHi == << "h", "i" >>
TextLong == Rep("m", MESSAGE_MAX_LENGTH + 1)

\* what the user can type or paste into the two fields
NameInputs == { NameA, NameAlPadded }
MessageInputs == { Blank, TextHi }

\* payloads of the hub's ReceiveMessage event: user, message, timestamp, userId
PayloadAl == << NameAl, TextHi, "10:01", 1 >>
PayloadBo == << NameBo, TextHi, Undefined, 2 >>
Payloads == { PayloadAl, PayloadBo }

\* payloads of the hub's UserNameUpdated event: oldName, newName, userId
RenameAl == << NameAl, NameBo, 1 >>
RenameBo == << NameBo, NameAl, 2 >>
Renames == { RenameAl, RenameBo }

RandomValues == 0..MaxRandom    \* Math.random(), in units of 1/RandomScale
RandomScale == MaxRandom + 1

----------------------------------------------------------------------------
(* String functions *)

IsSpace(c) == c = " "

\* String.prototype.trim : strip white space from both ends
RECURSIVE TrimStart(_)
TrimStart(s) ==
    IF Len(s) > 0 /\ IsSpace(s[1]) THEN TrimStart(Tail(s)) ELSE s

RECURSIVE TrimEnd(_)
TrimEnd(s) ==
    IF Len(s) > 0 /\ IsSpace(s[Len(s)])
    THEN TrimEnd(SubSeq(s, 1, Len(s) - 1)) ELSE s

Trim(s) == TrimEnd(TrimStart(s))

\* String.prototype.slice(0, n)
Slice(s, n) == IF Len(s) <= n THEN s ELSE SubSeq(s, 1, n)

Truthy(s) == Len(s) > 0

----------------------------------------------------------------------------
(* Validation: yup string().trim().required(msg).min(lo).max(hi).  The     *)
(* value is trimmed first and the rules are tested on the trimmed value;   *)
(* the result is the message of the first failing rule, or NoError.        *)

\* variant of FieldError that does not test the minimum length
FieldErrorNoMin(value, requiredMsg, minMsg, maxMsg, lo, hi) ==
    LET v == Trim(value)
    IN  IF Len(v) = 0 THEN requiredMsg
        ELSE IF Len(v) > hi THEN maxMsg
        ELSE NoError

FieldError(value, requiredMsg, minMsg, maxMsg, lo, hi) ==
    LET v == Trim(value)
    IN  IF Len(v) = 0 THEN requiredMsg
        ELSE IF Len(v) < lo THEN minMsg
        ELSE IF Len(v) > hi THEN maxMsg
        ELSE NoError

SchemaError(name, message) ==
    LET e == FieldError(name, "Name required",
                        "userName must be at least 2 characters",
                        "userName must be at most 20 characters",
                        NAME_MIN_LENGTH, NAME_MAX_LENGTH)
    IN  IF e # NoError THEN e
        ELSE FieldError(message, "Message required",
                        "messageInput must be at least 1 characters",
                        "messageInput must be at most 500 characters",
                        MESSAGE_MIN_LENGTH, MESSAGE_MAX_LENGTH)

----------------------------------------------------------------------------
(* Remote calls in flight: connection.invoke(op, a, b) *)

Call(op, a, b) == [op |-> op, a |-> a, b |-> b]

Pending(op) == { i \in 1..Len(calls) : calls[i].op = op }

Remove(seq, i) == SubSeq(seq, 1, i - 1) \o SubSeq(seq, i + 1, Len(seq))

\* the values a render hands to the handlers and effects it creates
Rendered == [connection |-> connection, connected |-> connected,
             userName |-> userName, messageInput |-> messageInput,
             isSubmitting |-> isSubmitting, userId |-> userId]

----------------------------------------------------------------------------
(* State after the component has mounted: the mount effect has built the   *)
(* connection and called setConnection; that update is not rendered yet.   *)

Init ==
    /\ variant \in { "identity", "simple" }
    /\ connection = TRUE
    /\ connected = FALSE
    /\ userName = Empty
    /\ messageInput = Empty
    /\ isSubmitting = FALSE
    /\ userId = Null
    /\ validationErrors = NoError
    /\ messages = << >>
    /\ view = [connection |-> FALSE, connected |-> FALSE,
               userName |-> Empty, messageInput |-> Empty,
               isSubmitting |-> FALSE, userId |-> Null]
    /\ hubState = "Disconnected"
    /\ connectionId = 0
    /\ calls = << >>
    /\ now = 0
    /\ received = 0
    /\ hubNames = [id \in Ids |-> Empty]

----------------------------------------------------------------------------
(* Rendering.  A render publishes the current state to the handlers and    *)
(* runs the effects whose dependencies changed since the previous render.  *)

\* useEffect(..., [connection]) : connection.start() and handler registration
StartEffect(old, new) ==
    IF new.connection # old.connection /\ new.connection
    THEN "Connecting" ELSE hubState

DepsChanged(old, new) ==
    \/ new.connection # old.connection
    \/ new.connected # old.connected
    \/ new.userName # old.userName
    \/ new.userId # old.userId

\* useEffect(joinChat, [connection, connected, userName, userId])
JoinEffect(old, new) ==
    IF /\ variant = "identity"
       /\ DepsChanged(old, new)
       /\ new.connection /\ new.connected
       /\ Truthy(Trim(new.userName)) /\ new.userId = Null
    THEN << Call("JoinChat", Trim(new.userName), Null) >>
    ELSE << >>

\* useEffect(updateName, [connection, connected, userId, userName])
UpdateEffect(old, new) ==
    IF /\ variant = "identity"
       /\ DepsChanged(old, new)
       /\ new.userId # Null
       /\ new.connection /\ new.connected
       /\ Truthy(Trim(new.userName))
    THEN << Call("UpdateUserName", new.userId, Trim(new.userName)) >>
    ELSE << >>

Render ==
    /\ view # Rendered
    /\ LET invoked == JoinEffect(view, Rendered) \o UpdateEffect(view, Rendered)
       IN  /\ Len(calls) + Len(invoked) <= MaxInFlight
           /\ calls' = calls \o invoked
    /\ hubState' = StartEffect(view, Rendered)
    /\ view' = Rendered
    /\ UNCHANGED << variant, connection, connected, userName, messageInput,
                    isSubmitting, userId, validationErrors, messages,
                    connectionId, now, received, hubNames >>

----------------------------------------------------------------------------
(* User actions.  State updates made while an input event is handled,     *)
(* up to the end of its microtasks, are rendered before the next event is  *)
(* handled: the handlers and effects see those values at once.  Updates    *)
(* made by the continuations of remote calls and by hub callbacks wait for *)
(* the next Render, and a handler that runs before it reads their old      *)
(* values.                                                                 *)

\* the maxLength attribute of both fields: the browser keeps at most n
\* characters of what the user types or pastes
maxLength(value, n) == IF Len(value) <= n THEN value ELSE SubSeq(value, 1, n)

\* variant of TypedName that stores the text as it was entered
TypedNameUnbounded(value) == value

\* onChange of the name field
TypedName(value) ==
    IF variant = "identity"
    THEN Slice(maxLength(value, NAME_MAX_LENGTH), NAME_MAX_LENGTH)
    ELSE maxLength(value, NAME_MAX_LENGTH)

ChangeName(value) ==
    /\ TypedName(value) # userName
    /\ userName' = TypedName(value)
    /\ view' = [view EXCEPT !.userName = TypedName(value)]
    /\ LET invoked == JoinEffect(view, view') \o UpdateEffect(view, view')
       IN  /\ Len(calls) + Len(invoked) <= MaxInFlight
           /\ calls' = calls \o invoked
    /\ UNCHANGED << variant, connection, connected, messageInput,
                    isSubmitting, userId, validationErrors, messages,
                    hubState, connectionId, now, received, hubNames >>

\* onChange of the message field
TypedMessage(value) ==
    IF variant = "identity"
    THEN Slice(maxLength(value, MESSAGE_MAX_LENGTH), MESSAGE_MAX_LENGTH)
    ELSE maxLength(value, MESSAGE_MAX_LENGTH)

ChangeMessage(value) ==
    /\ TypedMessage(value) # messageInput \/ TypedMessage(value) # view.messageInput
    /\ messageInput' = TypedMessage(value)
    /\ view' = [view EXCEPT !.messageInput = TypedMessage(value)]
    /\ UNCHANGED << variant, connection, connected, userName,
                    isSubmitting, userId, validationErrors, messages,
                    hubState, connectionId, calls, now, received, hubNames >>

\* variant of SubmitBlocked that does not test isSubmitting
SubmitBlockedNoFlag(v) == ~v.connected \/ v.userId = Null

\* the first three conditions of the guard of sendMessage
SubmitBlocked(v) == v.isSubmitting \/ ~v.connected \/ v.userId = Null

\* sendMessage of the identity-aware component, up to the invoke.  The
\* handler reads the values of the render that created it.  validate()
\* settles within the microtasks of the submit event, so the check, the
\* validation and the invoke are one step.
Submit ==
    /\ variant = "identity"
    /\ IF SubmitBlocked(view)
       THEN UNCHANGED << validationErrors, isSubmitting, calls, view >>
       ELSE LET e == SchemaError(view.userName, view.messageInput)
            IN  /\ validationErrors' = e
                /\ IF e = NoError
                   THEN /\ Len(calls) < MaxInFlight
                        /\ isSubmitting' = TRUE
                        /\ view' = [view EXCEPT !.isSubmitting = TRUE]
                        /\ calls' = Append(calls,
                              Call("SendMessage", view.userId,
                                   Trim(view.messageInput)))
                   ELSE UNCHANGED << isSubmitting, calls, view >>
    /\ UNCHANGED << variant, connection, connected, userName, messageInput,
                    userId, messages, hubState, connectionId, now,
                    received, hubNames >>

\* sendMessage of src/src/App.jsx, up to the invoke
SubmitSimple ==
    /\ variant = "simple"
    /\ IF /\ Truthy(Trim(view.messageInput))
          /\ Truthy(Trim(view.userName))
          /\ view.connection
       THEN /\ Len(calls) < MaxInFlight
            /\ calls' = Append(calls, Call("SendMessage", Trim(view.userName),
                                           view.messageInput))
       ELSE UNCHANGED calls
    /\ UNCHANGED << variant, connection, connected, userName, messageInput,
                    isSubmitting, userId, validationErrors, messages,
                    view, hubState, connectionId, now, received, hubNames >>

----------------------------------------------------------------------------
(* Completion of remote calls.  hubNames is the hub's side of the          *)
(* session: the name it holds for each identifier it has handed out.       *)

\* variant of Resolve in which a resolved SendMessage is added to the log
ResolveAppendsMessage(i, id) ==
    /\ i \in 1..Len(calls)
    /\ hubState = "Connected"
    /\ calls' = Remove(calls, i)
    /\ CASE calls[i].op = "JoinChat" ->
              /\ id \in Ids
              /\ userId' = id
              /\ hubNames' = [hubNames EXCEPT ![id] = calls[i].a]
              /\ UNCHANGED << messageInput, isSubmitting, messages >>
         [] calls[i].op = "UpdateUserName" ->
              /\ id = Null
              /\ hubNames' = [hubNames EXCEPT ![calls[i].a] = calls[i].b]
              /\ UNCHANGED << userId, messageInput, isSubmitting, messages >>
         [] calls[i].op = "SendMessage" ->
              /\ id = Null
              /\ messageInput' = Empty
              /\ isSubmitting' = (IF variant = "identity" THEN FALSE
                                                          ELSE isSubmitting)
              /\ messages' = Append(messages,
                                [user |-> userName, message |-> calls[i].b,
                                 id |-> now])
              /\ UNCHANGED << userId, hubNames >>
    /\ UNCHANGED << variant, connection, connected, userName,
                    validationErrors, view, hubState,
                    connectionId, now, received >>

\* variant of Resolve in which a resolved SendMessage resets the whole form
ResolveClearsForm(i, id) ==
    /\ i \in 1..Len(calls)
    /\ hubState = "Connected"
    /\ calls' = Remove(calls, i)
    /\ CASE calls[i].op = "JoinChat" ->
              /\ id \in Ids
              /\ userId' = id
              /\ hubNames' = [hubNames EXCEPT ![id] = calls[i].a]
              /\ UNCHANGED << userName, messageInput, isSubmitting >>
         [] calls[i].op = "UpdateUserName" ->
              /\ id = Null
              /\ hubNames' = [hubNames EXCEPT ![calls[i].a] = calls[i].b]
              /\ UNCHANGED << userId, userName, messageInput, isSubmitting >>
         [] calls[i].op = "SendMessage" ->
              /\ id = Null
              /\ messageInput' = Empty
              /\ userName' = Empty
              /\ isSubmitting' = (IF variant = "identity" THEN FALSE
                                                          ELSE isSubmitting)
              /\ UNCHANGED << userId, hubNames >>
    /\ UNCHANGED << variant, connection, connected,
                    validationErrors, messages, view, hubState,
                    connectionId, now, received >>

\* the awaited invoke resolves; JoinChat resolves with the identifier `id`
Resolve(i, id) ==
    /\ i \in 1..Len(calls)
    /\ hubState = "Connected"
    /\ calls' = Remove(calls, i)
    /\ CASE calls[i].op = "JoinChat" ->
              /\ id \in Ids
              /\ userId' = id
              /\ hubNames' = [hubNames EXCEPT ![id] = calls[i].a]
              /\ UNCHANGED << messageInput, isSubmitting >>
         [] calls[i].op = "UpdateUserName" ->
              /\ id = Null
              /\ hubNames' = [hubNames EXCEPT ![calls[i].a] = calls[i].b]
              /\ UNCHANGED << userId, messageInput, isSubmitting >>
         [] calls[i].op = "SendMessage" ->
              /\ id = Null
              /\ messageInput' = Empty
              /\ isSubmitting' = (IF variant = "identity" THEN FALSE
                                                          ELSE isSubmitting)
              /\ UNCHANGED << userId, hubNames >>
    /\ UNCHANGED << variant, connection, connected, userName,
                    validationErrors, messages, view, hubState,
                    connectionId, now, received >>

\* variant of Reject without the `finally` of sendMessage
RejectKeepsSubmitting(i) ==
    /\ i \in 1..Len(calls)
    /\ calls' = Remove(calls, i)
    /\ IF calls[i].op = "SendMessage" /\ variant = "identity"
       THEN validationErrors' = "Send failed"
       ELSE UNCHANGED validationErrors
    /\ UNCHANGED << variant, connection, connected, userName, messageInput,
                    isSubmitting, userId, messages, view, hubState,
                    connectionId, now, received, hubNames >>

\* variant of Reject in which a failed SendMessage clears the message field
RejectClearsInput(i) ==
    /\ i \in 1..Len(calls)
    /\ calls' = Remove(calls, i)
    /\ IF calls[i].op = "SendMessage" /\ variant = "identity"
       THEN /\ validationErrors' = "Send failed"
            /\ isSubmitting' = FALSE
            /\ messageInput' = Empty
       ELSE UNCHANGED << validationErrors, isSubmitting, messageInput >>
    /\ UNCHANGED << variant, connection, connected, userName,
                    userId, messages, view, hubState, connectionId, now,
                    received, hubNames >>

\* variant of Reject in which a failed JoinChat marks the session
\* disconnected
RejectJoinDisconnects(i) ==
    /\ i \in 1..Len(calls)
    /\ calls' = Remove(calls, i)
    /\ IF calls[i].op = "SendMessage" /\ variant = "identity"
       THEN /\ validationErrors' = "Send failed"
            /\ isSubmitting' = FALSE
       ELSE UNCHANGED << validationErrors, isSubmitting >>
    /\ connected' = (IF calls[i].op = "JoinChat" THEN FALSE ELSE connected)
    /\ UNCHANGED << variant, connection, userName, messageInput,
                    userId, messages, view, hubState, connectionId, now,
                    received, hubNames >>

\* the awaited invoke rejects
Reject(i) ==
    /\ i \in 1..Len(calls)
    /\ calls' = Remove(calls, i)
    /\ IF calls[i].op = "SendMessage" /\ variant = "identity"
       THEN /\ validationErrors' = "Send failed"
            /\ isSubmitting' = FALSE
       ELSE UNCHANGED << validationErrors, isSubmitting >>
    /\ UNCHANGED << variant, connection, connected, userName, messageInput,
                    userId, messages, view, hubState, connectionId, now,
                    received, hubNames >>

----------------------------------------------------------------------------
(* Transport: HubConnectionBuilder().withUrl(..).withAutomaticReconnect()  *)

\* connection.start().then(() => setConnected(true))
StartOk ==
    /\ hubState = "Connecting"
    /\ hubState' = "Connected"
    /\ connectionId' = 1
    /\ connected' = TRUE
    /\ UNCHANGED << variant, connection, userName, messageInput,
                    isSubmitting, userId, validationErrors, messages,
                    view, calls, now, received, hubNames >>

\* connection.start().catch(() => setConnected(false))
StartFail ==
    /\ hubState = "Connecting"
    /\ hubState' = "Disconnected"
    /\ connected' = FALSE
    /\ UNCHANGED << variant, connection, userName, messageInput,
                    isSubmitting, userId, validationErrors, messages,
                    view, connectionId, calls, now, received, hubNames >>

\* variant of Drop in which the drop also clears the connected flag
DropClearsConnected ==
    /\ hubState = "Connected"
    /\ connectionId < MaxConnectionId
    /\ hubState' = "Reconnecting"
    /\ connected' = FALSE
    /\ UNCHANGED << variant, connection, userName, messageInput,
                    isSubmitting, userId, validationErrors, messages,
                    view, connectionId, calls, now, received, hubNames >>

\* the transport drops and the library starts reconnecting; the component
\* registers no onreconnecting handler
Drop ==
    /\ hubState = "Connected"
    /\ connectionId < MaxConnectionId
    /\ hubState' = "Reconnecting"
    /\ UNCHANGED << variant, connection, connected, userName, messageInput,
                    isSubmitting, userId, validationErrors, messages,
                    view, connectionId, calls, now, received, hubNames >>

\* connection.onreconnected(() => setConnected(true))
Reconnected ==
    /\ hubState = "Reconnecting"
    /\ hubState' = "Connected"
    /\ connectionId' = connectionId + 1
    /\ connected' = TRUE
    /\ UNCHANGED << variant, connection, userName, messageInput,
                    isSubmitting, userId, validationErrors, messages,
                    view, calls, now, received, hubNames >>

\* connection.onclose(() => setConnected(false)) : the hub closed the
\* connection, or the library gave up reconnecting
Close ==
    /\ hubState \in { "Connected", "Reconnecting" }
    /\ hubState' = "Disconnected"
    /\ connected' = FALSE
    /\ UNCHANGED << variant, connection, userName, messageInput,
                    isSubmitting, userId, validationErrors, messages,
                    view, connectionId, calls, now, received, hubNames >>

----------------------------------------------------------------------------
(* Inbound hub events *)

\* the entry the ReceiveMessage handler builds at clock reading t, with
\* Math.random() = r
Entry(p, t, r) ==
    IF variant = "identity"
    THEN [user |-> p[1], message |-> p[2], timestamp |-> p[3],
          userId |-> p[4], id |-> t * RandomScale + r]
    ELSE [user |-> p[1], message |-> p[2], id |-> t]

\* variant of ReceiveMessage that puts the new entry first
ReceiveMessagePrepend(p, t, r) ==
    /\ hubState = "Connected"
    /\ t >= now
    /\ variant = "simple" => r = 0
    /\ now' = t
    /\ received' = received + 1
    /\ messages' = << Entry(p, t, r) >> \o messages
    /\ UNCHANGED << variant, connection, connected, userName, messageInput,
                    isSubmitting, userId, validationErrors,
                    view, hubState, connectionId, calls, hubNames >>

\* connection.on('ReceiveMessage', ...) : setMessages(prev => [...prev, entry])
ReceiveMessage(p, t, r) ==
    /\ hubState = "Connected"
    /\ t >= now
    /\ variant = "simple" => r = 0
    /\ now' = t
    /\ received' = received + 1
    /\ messages' = Append(messages, Entry(p, t, r))
    /\ UNCHANGED << variant, connection, connected, userName, messageInput,
                    isSubmitting, userId, validationErrors,
                    view, hubState, connectionId, calls, hubNames >>

\* variant of RenameAuthors that appends the new name to the old one
RenameAppendsName(log, newName, updatedUserId) ==
    [i \in 1..Len(log) |->
        IF log[i].userId = updatedUserId
        THEN [log[i] EXCEPT !.user = log[i].user \o newName]
        ELSE log[i]]

\* variant of RenameAuthors that renames every message
RenameAllAuthors(log, newName, updatedUserId) ==
    [i \in 1..Len(log) |-> [log[i] EXCEPT !.user = newName]]

\* prev.map(msg => msg.userId === updatedUserId ? {...msg, user: newName} : msg)
RenameAuthors(log, newName, updatedUserId) ==
    [i \in 1..Len(log) |->
        IF log[i].userId = updatedUserId
        THEN [log[i] EXCEPT !.user = newName]
        ELSE log[i]]

\* connection.on('UserNameUpdated', ...) of the identity-aware component
UserNameUpdated(rn) ==
    /\ variant = "identity"
    /\ hubState = "Connected"
    /\ messages' = RenameAuthors(messages, rn[2], rn[3])
    /\ UNCHANGED << variant, connection, connected, userName, messageInput,
                    isSubmitting, userId, validationErrors,
                    view, hubState, connectionId, calls, now, received, hubNames >>

----------------------------------------------------------------------------

(* Spec: the whole component with the input fields ranging over short,    *)
(* blank and valid values and a log of at most MaxSessionLog messages.     *)

Next ==
    \/ Render
    \/ \E value \in NameInputs : ChangeName(value)
    \/ \E value \in MessageInputs : ChangeMessage(value)
    \/ Submit
    \/ SubmitSimple
    \/ \E i \in 1..MaxInFlight, id \in Ids \cup { Null } : Resolve(i, id)
    \/ \E i \in 1..MaxInFlight : Reject(i)
    \/ StartOk
    \/ StartFail
    \/ Drop
    \/ Reconnected
    \/ Close
    \/ \E t \in 0..MaxClock, r \in RandomValues :
          received < MaxSessionLog /\ ReceiveMessage(PayloadAl, t, r)
    \/ UserNameUpdated(RenameAl)

Spec == Init /\ [][Next]_vars

(* LogSpec: the whole component with one valid value for each input field  *)
(* and the inbound events ranging over all payloads.                       *)

LogNext ==
    \/ Render
    \/ ChangeName(NameAlPadded)
    \/ ChangeMessage(TextHi)
    \/ Submit
    \/ SubmitSimple
    \/ \E i \in 1..MaxInFlight, id \in Ids \cup { Null } : Resolve(i, id)
    \/ \E i \in 1..MaxInFlight : Reject(i)
    \/ StartOk
    \/ StartFail
    \/ Drop
    \/ Reconnected
    \/ Close
    \/ \E p \in Payloads, t \in 0..MaxClock, r \in RandomValues :
          received < MaxLog /\ ReceiveMessage(p, t, r)
    \/ \E rn \in Renames : UserNameUpdated(rn)

LogSpec == Init /\ [][LogNext]_vars

(* SimpleSpec: the component of src/src/App.jsx alone, with the fields    *)
(* ranging over short, blank, valid and overlong text.                     *)

SimpleNameInputs == { NameA, NameAlPadded, NameLong }

SimpleMessageInputs == { Blank, TextHi, TextLong }

SimpleInit == Init /\ variant = "simple"

SimpleNext ==
    \/ Render
    \/ \E value \in SimpleNameInputs : ChangeName(value)
    \/ \E value \in SimpleMessageInputs : ChangeMessage(value)
    \/ SubmitSimple
    \/ \E i \in 1..MaxInFlight : Resolve(i, Null)
    \/ \E i \in 1..MaxInFlight : Reject(i)
    \/ StartOk
    \/ StartFail
    \/ Drop
    \/ Reconnected
    \/ Close
    \/ \E t \in 0..MaxClock :
          received < MaxLog /\ ReceiveMessage(PayloadAl, t, 0)

SimpleSpec == SimpleInit /\ [][SimpleNext]_vars

(* InputSpec: the identity-aware component alone, with the fields        *)
(* ranging over valid and overlong text.                                   *)

LongNameInputs == { NameAlPadded, NameLong }

LongMessageInputs == { TextHi, TextLong }

InputInit == Init /\ variant = "identity"

InputNext ==
    \/ Render
    \/ \E value \in LongNameInputs : ChangeName(value)
    \/ \E value \in LongMessageInputs : ChangeMessage(value)
    \/ Submit
    \/ \E i \in 1..MaxInFlight, id \in Ids \cup { Null } : Resolve(i, id)
    \/ \E i \in 1..MaxInFlight : Reject(i)
    \/ StartOk
    \/ StartFail
    \/ Drop
    \/ Reconnected
    \/ Close

InputSpec == InputInit /\ [][InputNext]_vars

(* LiveSpec: Spec under the assumption that every remote call eventually  *)
(* resolves or rejects.                                                    *)

Settle(i) == Reject(i) \/ \E id \in Ids \cup { Null } : Resolve(i, id)

LiveSpec == Spec /\ \A i \in 1..MaxInFlight : WF_vars(Settle(i))

----------------------------------------------------------------------------
(* Steps that make a remote call *)

Invoked(op) ==
    /\ Len(calls') = Len(calls) + 1
    /\ calls'[Len(calls')].op = op

InvalidInput(name, message) ==
    \/ Len(Trim(name)) < NAME_MIN_LENGTH
    \/ Len(Trim(name)) > NAME_MAX_LENGTH
    \/ Len(Trim(message)) = 0
    \/ Len(Trim(message)) > MESSAGE_MAX_LENGTH

----------------------------------------------------------------------------
(* C1: in the identity-aware component at most one SendMessage call is     *)
(* outstanding at any time: a submit made while an earlier SendMessage has *)
(* not settled makes no further call.                                      *)

C1_SingleSend ==
    variant = "identity" => Cardinality(Pending("SendMessage")) <= 1

\* a send is outstanding and only isSubmitting stands between a further
\* submit and a second call
C1_Witness ==
    /\ variant = "identity"
    /\ Pending("SendMessage") # {}
    /\ view.isSubmitting /\ view.connected /\ view.userId # Null
    /\ ~InvalidInput(view.userName, view.messageInput)

(* C2: in the identity-aware component no step makes a SendMessage call    *)
(* while the name field holds fewer than 2 or more than 20 characters      *)
(* after trimming, or the message field none or more than 500.             *)

C2_InvalidNeverSent ==
    [][ (variant = "identity" /\ InvalidInput(userName, messageInput))
            => ~Invoked("SendMessage") ]_vars

\* a submit was stopped by the validator alone
C2_Witness ==
    /\ variant = "identity"
    /\ InvalidInput(userName, messageInput)
    /\ view.connected /\ view.userId # Null /\ ~view.isSubmitting
    /\ validationErrors = "userName must be at least 2 characters"
    /\ calls = << >>

(* C3: a render in which the connected flag changed (all a reconnect can   *)
(* change) invokes JoinChat only when no JoinChat is in flight and no      *)
(* identity is stored.                                                     *)

C3_ReconnectNoSecondJoin ==
    [][ (Invoked("JoinChat") /\ view'.connected # view.connected)
            => (Pending("JoinChat") = {} /\ userId = Null) ]_vars

\* the transport has reconnected while a JoinChat was in flight or done
C3_Witness ==
    /\ variant = "identity"
    /\ connectionId >= 2 /\ hubState = "Connected"
    /\ connected /\ view.connected
    /\ Pending("JoinChat") # {} \/ userId # Null

(* C4: once userId is set, a reconnect leaves connected true and no step   *)
(* invokes JoinChat.                                                       *)

C4_NoJoinOnceIdentified ==
    [][ (variant = "identity" /\ userId # Null)
            => /\ ~Invoked("JoinChat")
               /\ (connectionId' > connectionId => connected') ]_vars

(* C5: UpdateUserName is invoked only with an existing identity and a      *)
(* non-empty trimmed name that differs from the name the hub holds for     *)
(* that identity.                                                          *)

C5_UpdateOnlyOnChange ==
    [][ Invoked("UpdateUserName")
            => LET c == calls'[Len(calls')]
               IN  /\ c.a # Null
                   /\ Truthy(c.b)
                   /\ c.b # hubNames[c.a] ]_vars

(* C6: if every remote call eventually settles, isSubmitting never stays  *)
(* true forever.                                                           *)

C6_SubmittingEnds == isSubmitting ~> ~isSubmitting

\* a send is in flight with isSubmitting set
C6_Witness ==
    /\ isSubmitting
    /\ Pending("SendMessage") # {}
    /\ validationErrors = NoError

(* C7: the step in which a SendMessage call resolves leaves the message    *)
(* field empty and does not touch the name field, in both components.     *)

C7_ResolveClearsMessageOnly ==
    [][ \A i \in 1..Len(calls) :
          (calls[i].op = "SendMessage" /\ Resolve(i, Null))
              => (messageInput' = Empty /\ userName' = userName) ]_vars

\* a send has just resolved: the field is cleared and not yet re-rendered
C7_Witness ==
    /\ messageInput = Empty /\ view.messageInput = TextHi
    /\ ~InvalidInput(userName, view.messageInput)
    /\ calls = << >>
    /\ validationErrors = NoError
    /\ variant = "identity" => (~isSubmitting /\ view.isSubmitting)

(* C8: the step in which a SendMessage call rejects, in the identity-aware *)
(* component, sets a non-empty error string, leaves both fields and the    *)
(* log as they are and clears isSubmitting.                                *)

C8_RejectKeepsInput ==
    [][ \A i \in 1..Len(calls) :
          (variant = "identity" /\ calls[i].op = "SendMessage" /\ Reject(i))
              => /\ validationErrors' # NoError
                 /\ messageInput' = messageInput
                 /\ userName' = userName
                 /\ messages' = messages
                 /\ ~isSubmitting' ]_vars

\* a send has just failed, with text in the field and a message in the log
C8_Witness ==
    /\ variant = "identity"
    /\ validationErrors = "Send failed"
    /\ ~isSubmitting /\ view.isSubmitting
    /\ messageInput = TextHi
    /\ Len(messages) > 0

(* C9: the log holds one entry per ReceiveMessage event, in arrival order: *)
(* each event appends one entry, no other step changes the length, and no  *)
(* step changes the body, timestamp, author identifier or id of an entry.  *)

SameButAuthor(old, new) ==
    /\ new.message = old.message
    /\ new.id = old.id
    /\ variant = "identity" =>
          (new.timestamp = old.timestamp /\ new.userId = old.userId)

C9_AppendOnly ==
    [][ /\ Len(messages') = received'
        /\ received' \in { received, received + 1 }
        /\ \A i \in 1..Len(messages) : SameButAuthor(messages[i], messages'[i])
        /\ received' = received + 1 =>
              \E p \in Payloads :
                 /\ messages'[received'].user = p[1]
                 /\ messages'[received'].message = p[2] ]_vars

\* two messages arrived, the first one was renamed afterwards
C9_Witness ==
    /\ Len(messages) = 2
    /\ messages[1].message = TextHi /\ messages[1].user = NameBo
    /\ messages[2].user = NameAl
    /\ variant = "identity" => (messages[1].userId = 1 /\ messages[2].userId = 1)

(* C10: UserNameUpdated(oldName, newName, U) sets the author of every      *)
(* message whose author identifier is U to newName and leaves every other  *)
(* message, the length and the order of the log unchanged.                 *)

C10_RenameByIdentifier ==
    [][ \A rn \in Renames :
          UserNameUpdated(rn)
              => /\ Len(messages') = Len(messages)
                 /\ \A i \in 1..Len(messages) :
                       messages'[i] =
                          IF messages[i].userId = rn[3]
                          THEN [messages[i] EXCEPT !.user = rn[2]]
                          ELSE messages[i] ]_vars

\* of two messages with different authors, the second was renamed
C10_Witness ==
    /\ variant = "identity"
    /\ Len(messages) = 2
    /\ messages[1].userId = 1 /\ messages[1].user = NameAl
    /\ messages[2].userId = 2 /\ messages[2].user = NameAl

(* C11: applying the same UserNameUpdated payload to the log a second time *)
(* changes nothing: the log after the handler is a fixed point of it.      *)

C11_RenameIdempotent ==
    [][ \A rn \in Renames :
          UserNameUpdated(rn)
              => RenameAuthors(messages', rn[2], rn[3]) = messages' ]_vars

\* both messages of one author were renamed
C11_Witness ==
    /\ variant = "identity"
    /\ Len(messages) = 2
    /\ messages[1].userId = 2 /\ messages[1].user = NameAl
    /\ messages[2].userId = 2 /\ messages[2].user = NameAl

(* C12: the log changes only in the inbound event handlers; invoking       *)
(* SendMessage, its resolution and its rejection leave it as it is, in     *)
(* both components, and a ReceiveMessage event adds exactly one message.   *)

C12_SubmitLeavesLog ==
    [][ /\ messages' # messages
            => \/ \E p \in Payloads, t \in 0..MaxClock, r \in RandomValues :
                     ReceiveMessage(p, t, r)
               \/ \E rn \in Renames : UserNameUpdated(rn)
        /\ \A p \in Payloads, t \in 0..MaxClock, r \in RandomValues :
              ReceiveMessage(p, t, r) => Len(messages') = Len(messages) + 1 ]_vars

\* joined, one send resolved, and the log is still empty
C12_Witness ==
    /\ variant = "identity"
    /\ userId # Null /\ view.userId # Null
    /\ messageInput = Empty /\ view.messageInput = TextHi
    /\ ~isSubmitting /\ view.isSubmitting
    /\ validationErrors = NoError
    /\ messages = << >>

(* C13: in the component of src/src/App.jsx a submit makes no SendMessage  *)
(* call when the name it reads has a trimmed length below 2 or above 20,   *)
(* or the message it reads has a trimmed length of 0 or above 500.         *)

C13_SimpleInvalidNeverSent ==
    [][ (variant = "simple" /\ InvalidInput(view.userName, view.messageInput))
            => ~Invoked("SendMessage") ]_vars

(* C14: in the component of src/src/App.jsx a submit made while the        *)
(* connection is not in the Connected state, before the start has          *)
(* finished or after a close, makes no SendMessage call.                   *)

C14_SimpleNoSendUnlessConnected ==
    [][ (variant = "simple" /\ hubState # "Connected")
            => ~Invoked("SendMessage") ]_vars

(* C15: the connected flag is never true while the transport is not in the *)
(* Connected state, in both components.                                    *)

C15_ConnectedFollowsTransport == connected => hubState = "Connected"

(* C16: in the identity-aware component a rejected JoinChat or             *)
(* UpdateUserName call changes nothing of the session but the set of       *)
(* outstanding calls, and the session stays usable: while no identifier is *)
(* held a change of the name still invokes JoinChat, and with an           *)
(* identifier and valid fields a submit still invokes SendMessage.         *)

RejectedJoinOrUpdate(i) ==
    /\ variant = "identity"
    /\ i \in 1..Len(calls)
    /\ calls[i].op \in { "JoinChat", "UpdateUserName" }
    /\ Reject(i)

CanJoin ==
    ( /\ variant = "identity"
      /\ view.connection /\ view.connected /\ view.userId = Null
      /\ Len(calls) < MaxInFlight )
        => \E value \in NameInputs :
              ENABLED (ChangeName(value) /\ Invoked("JoinChat"))

CanSend ==
    ( /\ variant = "identity"
      /\ ~SubmitBlocked(view)
      /\ SchemaError(view.userName, view.messageInput) = NoError
      /\ Len(calls) < MaxInFlight )
        => ENABLED (Submit /\ Invoked("SendMessage"))

C16_RejectedCallKeepsSession ==
    /\ [][ \A i \in 1..MaxInFlight :
              RejectedJoinOrUpdate(i)
                  => UNCHANGED << connection, connected, userId, userName,
                                  messageInput, isSubmitting,
                                  validationErrors, messages, view,
                                  hubState >> ]_vars
    /\ [](CanJoin /\ CanSend)

\* every JoinChat made so far was rejected: the name is set and rendered,
\* the transport is connected, no call is outstanding and no identifier
\* is held
C16_Witness ==
    /\ variant = "identity"
    /\ hubState = "Connected"
    /\ view = Rendered
    /\ connected
    /\ Truthy(Trim(userName))
    /\ userId = Null
    /\ calls = << >>

(* C17: in the component of src/src/App.jsx the ids of the messages in the *)
(* log are pairwise distinct in every reachable state.                     *)

C17_SimpleDistinctIds ==
    variant = "simple"
        => \A i, j \in 1..Len(messages) :
              i # j => messages[i].id # messages[j].id

(* C18: in the identity-aware component, whatever text is typed or pasted  *)
(* into the fields, userName never holds more than 20 characters and       *)
(* messageInput never more than 500, in the state and in what is rendered. *)

C18_FieldsCapped ==
    variant = "identity"
        => /\ Len(userName) <= NAME_MAX_LENGTH
           /\ Len(view.userName) <= NAME_MAX_LENGTH
           /\ Len(messageInput) <= MESSAGE_MAX_LENGTH
           /\ Len(view.messageInput) <= MESSAGE_MAX_LENGTH

\* overlong text was entered into both fields and cut to the caps
C18_Witness ==
    /\ variant = "identity"
    /\ userName = Slice(NameLong, NAME_MAX_LENGTH)
    /\ messageInput = Slice(TextLong, MESSAGE_MAX_LENGTH)

(* C19: in the identity-aware component userId, once set, never changes.   *)

C19_UserIdStable == [][ userId # Null => userId' = userId ]_vars

(* C20: in the identity-aware component at most one JoinChat call is       *)
(* outstanding at any time.                                                *)

C20_SingleJoin == Cardinality(Pending("JoinChat")) <= 1

(* C21: in the identity-aware component every SendMessage call is made in  *)
(* a state where connected is true and userId is set.                      *)

C21_SendOnlyWhileConnected ==
    [][ (variant = "identity" /\ Invoked("SendMessage"))
            => (connected /\ userId # Null) ]_vars

====
